---- MODULE Spec2Model ----
(***************************************************************************)
(* A model of scripts/xivapi_calls.py: the recipe pipeline                 *)
(* (get_total_pages, handle_api_calls with one api_call thread per page,   *)
(* save_data_to_json) followed by the buff pipeline (extract_buff_data,    *)
(* sorted, save_buffs_to_file), and the pure transform                     *)
(* construct_recipe_json.                                                  *)
(*                                                                         *)
(* Python values: a dict is a function from key strings to values, a list  *)
(* a sequence, None the record None below.  A JSON leaf that the code      *)
(* tests against None (the buff fields) is boxed as Val(x), so that it can *)
(* be compared with None.                                                  *)
(*                                                                         *)
(* Threads run under CPython's global interpreter lock: one bytecode       *)
(* instruction, and one call into a C-implemented method, is atomic.       *)
(* recipes[key] (defaultdict.__getitem__ with the C factory list) and      *)
(* list.append are therefore single steps; the steps of different threads  *)
(* interleave freely between them.                                         *)
(***************************************************************************)
EXTENDS Integers, Sequences, FiniteSets, Bags, TLC

VARIABLES
    pagination,     \* environment: what GET /Recipe answers (get_total_pages)
    resp,           \* environment: page id -> what GET /Recipe?page=.. answers
    search_resp,    \* environment: buff name -> what POST /search answers
    overtake,       \* environment: how many older unanswered page requests an
                    \* answer may overtake
    main_pc,        \* position of the main thread
    pages_amount,   \* __main__'s pages_amount
    i,              \* handle_api_calls: the loop variable
    threads,        \* handle_api_calls: the list `threads` (thread ids)
    j,              \* handle_api_calls: position of the join loop in `threads`
    thr,            \* every Thread object created so far, by thread id
    recipes,        \* handle_api_calls: the defaultdict(list)
    warned,         \* page ids for which "Too many requests" was printed
    files,          \* app/data/recipedb: file name -> the list written
    buff_i,         \* __main__: position of the loop over buff_types
    buffs,          \* __main__: the list `buffs`
    buff_files,     \* app/data/buffs: file name -> the list written
    raw_in,         \* transform harness: the record given
    recipe_out      \* transform harness: what construct_recipe_json returned

env_vars  == <<pagination, resp, search_resp, overtake>>
main_vars == <<main_pc, pages_amount, i, threads, j>>
data_vars == <<thr, recipes, warned, files, buff_i, buffs, buff_files>>
pure_vars == <<raw_in, recipe_out>>
vars == <<env_vars, main_vars, data_vars, pure_vars>>

---------------------------------------------------------------------------
(* Python values *)

None == [none |-> TRUE]

Val(x) == [val |-> x]

\* dict.get(key, default)
Get(d, key, default) == IF key \in DOMAIN d THEN d[key] ELSE default

\* bool(x) of a dict or None, as `if constructed_recipe:` evaluates it
Truthy(x) == x # None /\ DOMAIN x # {}

\* x / 100 on integers: the exact quotient num/den.  A double holds it to
\* within 2^-7 for |num| < 2^53, which never moves it across an integer.
TrueDiv(num, den) == <<num, den>>

MathRound(q) == (2 * q[1] + q[2]) \div (2 * q[2])

\* math.floor
MathFloor(q) == q[1] \div q[2]

buff_types == <<"Medicine", "Meal">>

BatchSize == 20

---------------------------------------------------------------------------
(* construct_recipe_json *)

\* lines 109-145: the dict built from a record that has a level table
recipe_dict(original_recipe) ==
    LET lt == original_recipe["RecipeLevelTable"]
        recipe ==
          [ id |-> original_recipe["ID"],
            name |-> [ en |-> original_recipe["Name_en"],
                       de |-> original_recipe["Name_de"],
                       fr |-> original_recipe["Name_fr"],
                       ja |-> original_recipe["Name_ja"] ],
            baseLevel |-> lt["ClassJobLevel"],
            level |-> lt["ID"],
            difficulty |->
              MathFloor(TrueDiv(lt["Difficulty"]
                                * original_recipe["DifficultyFactor"], 100)),
            durability |->
              MathFloor(TrueDiv(lt["Durability"]
                                * original_recipe["DurabilityFactor"], 100)),
            maxQuality |->
              MathFloor(TrueDiv(lt["Quality"]
                                * original_recipe["QualityFactor"], 100)),
            suggestedCraftsmanship |-> lt["SuggestedCraftsmanship"],
            suggestedControl |-> lt["SuggestedControl"],
            progressDivider |-> lt["ProgressDivider"],
            progressModifier |-> lt["ProgressModifier"],
            qualityDivider |-> lt["QualityDivider"],
            qualityModifier |-> lt["QualityModifier"] ]
    IN  IF lt["Stars"] # 0
        THEN recipe @@ ("stars" :> lt["Stars"])
        ELSE recipe

\* a transform that also drops the records without stars
construct_recipe_json_stars(original_recipe) ==
    IF original_recipe["RecipeLevelTable"] = None
       \/ original_recipe["RecipeLevelTable"]["Stars"] = 0
    THEN None
    ELSE recipe_dict(original_recipe)

construct_recipe_json(original_recipe) ==
    IF original_recipe["RecipeLevelTable"] = None
    THEN None
    ELSE recipe_dict(original_recipe)

---------------------------------------------------------------------------
(* The environment: what the API may answer *)

MaxPages == 3

LevelTable(stars) ==
    [ ClassJobLevel |-> 50, Stars |-> stars, ID |-> 110,
      Difficulty |-> 99, Durability |-> 80, Quality |-> 1500,
      SuggestedCraftsmanship |-> 391, SuggestedControl |-> 374,
      ProgressDivider |-> 50, ProgressModifier |-> 100,
      QualityDivider |-> 30, QualityModifier |-> 100 ]

RawRecipe(id, class_job, name, level_table) ==
    [ ID |-> id,
      Name_en |-> name, Name_de |-> name, Name_fr |-> name, Name_ja |-> name,
      ClassJob |-> [NameEnglish |-> class_job],
      DurabilityFactor |-> 100, QualityFactor |-> 100, DifficultyFactor |-> 101,
      RequiredControl |-> 0, RequiredCraftsmanship |-> 0,
      RecipeLevelTable |-> level_table ]

\* Two page payloads.  Both reach the category Carpenter, the second one
\* after a record without a level table; ids are not in page order.
ResultsA ==
    << RawRecipe(2, "Carpenter", "Lumber", LevelTable(0)),
       RawRecipe(1, "Blacksmith", "Ingot", LevelTable(2)) >>

ResultsB ==
    << RawRecipe(3, "Carpenter", "Void", None),
       RawRecipe(1, "Carpenter", "Plank", LevelTable(0)) >>

NotJSON == [not_json |-> TRUE]

ErrorJSON == [Error |-> TRUE]

PageJSON(results) == [Results |-> results]

TransportError == [kind |-> "transport_error"]

Http(status, body) == [kind |-> "http", status_code |-> status, body |-> body]

\* the answers to a page request: no answer at all, a body that is not JSON,
\* the API's error object with status 429, a 429 that carries a page all the
\* same, and the two pages
PageResponses ==
    { TransportError,
      Http(200, NotJSON),
      Http(429, ErrorJSON),
      Http(429, PageJSON(ResultsB)),
      Http(200, PageJSON(ResultsA)),
      Http(200, PageJSON(ResultsB)) }

\* what GET /Recipe?page=page_id answers
Response(page_id) ==
    IF page_id \in DOMAIN resp THEN resp[page_id] ELSE Http(200, PageJSON(<<>>))

---------------------------------------------------------------------------
(* api_call, one thread per Thread object *)

Terminated(t) == thr[t].pc \in {"done", "failed"}

InFlight == {t \in 1..Len(thr) : ~Terminated(t)}

\* page_data["Results"] of a thread past its fetch
Results(t) == Response(thr[t].page_id).body["Results"]

\* a dict that forgets what it held under the key
DictResetItem(d, key) ==
    [k \in DOMAIN d \cup {key} |-> IF k = key THEN <<>> ELSE d[k]]

\* defaultdict(list).__getitem__: the list under the key, made if missing
DefaultDictGetItem(d, key) ==
    IF key \in DOMAIN d THEN d ELSE d @@ (key :> <<>>)

\* the end of one turn of `for recipe in page_data["Results"]`
NextRecord(t) ==
    IF thr[t].idx < Len(Results(t))
    THEN [thr EXCEPT ![t].pc = "loop", ![t].idx = @ + 1]
    ELSE [thr EXCEPT ![t].pc = "done"]

\* the answer to the request of thread t may arrive
Answered(t) == Cardinality({u \in 1..(t - 1) : thr[u].pc = "fetch"}) <= overtake

\* lines 166-176: the request, r.json(), the 429 warning, page_data["Results"]
api_call_fetch(t) ==
    /\ thr[t].pc = "fetch"
    /\ Answered(t)
    /\ LET r == Response(thr[t].page_id)
       IN  IF r.kind = "transport_error" \/ r.body = NotJSON
           THEN /\ thr' = [thr EXCEPT ![t].pc = "failed"]
                /\ warned' = warned
           ELSE /\ warned' = IF r.status_code = 429
                             THEN warned \cup {thr[t].page_id}
                             ELSE warned
                /\ thr' = IF "Results" \notin DOMAIN r.body
                          THEN [thr EXCEPT ![t].pc = "failed"]
                          ELSE IF Len(r.body["Results"]) = 0
                          THEN [thr EXCEPT ![t].pc = "done"]
                          ELSE [thr EXCEPT ![t].pc = "loop", ![t].idx = 1]
    /\ UNCHANGED <<env_vars, main_vars, recipes, files, buff_i, buffs, buff_files, pure_vars>>

\* lines 177-180 up to recipes[key]
api_call_record(t) ==
    /\ thr[t].pc = "loop"
    /\ LET recipe == Results(t)[thr[t].idx]
           key == recipe["ClassJob"]["NameEnglish"]
           constructed_recipe == construct_recipe_json(recipe)
       IN  IF Truthy(constructed_recipe)
           THEN /\ recipes' = DefaultDictGetItem(recipes, key)
                /\ thr' = [thr EXCEPT ![t].pc = "append"]
           ELSE /\ recipes' = recipes
                /\ thr' = NextRecord(t)
    /\ UNCHANGED <<env_vars, main_vars, warned, files, buff_i, buffs, buff_files, pure_vars>>

\* line 180: .append(constructed_recipe)
api_call_append(t) ==
    /\ thr[t].pc = "append"
    /\ LET recipe == Results(t)[thr[t].idx]
           key == recipe["ClassJob"]["NameEnglish"]
       IN  recipes' = [recipes EXCEPT ![key] = Append(@, construct_recipe_json(recipe))]
    /\ thr' = NextRecord(t)
    /\ UNCHANGED <<env_vars, main_vars, warned, files, buff_i, buffs, buff_files, pure_vars>>

api_call(t) == api_call_fetch(t) \/ api_call_record(t) \/ api_call_append(t)

---------------------------------------------------------------------------
(* sorted *)

BoolInt(b) == IF b THEN 1 ELSE 0

\* < on the tuples of integers used as sort keys
KeyLess(a, b) ==
    \E n \in 1..Len(a) :
        /\ n <= Len(b)
        /\ a[n] < b[n]
        /\ \A m \in 1..(n - 1) : a[m] = b[m]

\* sorted(xs, key=..), keys[n] being the key of xs[n]: ascending by key, equal
\* keys in their order in xs
sorted(xs, keys) ==
    LET rank(a) ==
          1 + Cardinality({b \in 1..Len(xs) :
                             \/ KeyLess(keys[b], keys[a])
                             \/ keys[b] = keys[a] /\ b < a})
    IN  [m \in 1..Len(xs) |-> xs[CHOOSE a \in 1..Len(xs) : rank(a) = m]]

\* no key at all: the list stays as it is
no_keys(xs) == [n \in 1..Len(xs) |-> <<0>>]

\* key=lambda x: x["id"] over a list
recipe_keys(xs) == [n \in 1..Len(xs) |-> <<xs[n]["id"]>>]

\* the key with hq first
hq_id_keys(xs) == [n \in 1..Len(xs) |-> <<BoolInt(xs[n]["hq"].val), xs[n]["id"].val>>]

\* key=lambda x: (x["id"], x["hq"]) over a list; a bool orders as 0 or 1
buff_keys(xs) == [n \in 1..Len(xs) |-> <<xs[n]["id"].val, BoolInt(xs[n]["hq"].val)>>]

---------------------------------------------------------------------------
(* The recipe pipeline of __main__ *)

\* lines 154-156
get_total_pages ==
    /\ main_pc = "get_total_pages"
    /\ IF pagination = TransportError \/ pagination.body = NotJSON
          \/ "Pagination" \notin DOMAIN pagination.body
       THEN /\ main_pc' = "aborted"
            /\ pages_amount' = pages_amount
       ELSE /\ main_pc' = "loop"
            /\ pages_amount' = pagination.body["Pagination"]["PageTotal"]
    /\ UNCHANGED <<env_vars, i, threads, j, data_vars, pure_vars>>

\* a return without the joins of lines 203-204
ReturnAtOnce(ts) == "save"

\* lines 203-205: what follows the loop, the joins of the threads left in
\* `threads` and then the return
AfterLoop(ts) == IF Len(ts) = 0 THEN "save" ELSE "final_join"

\* a batch of one more
BatchFullLate(n) == n % (BatchSize + 1) = 0

\* line 199
BatchFull(n) == n % BatchSize = 0

\* lines 195-199: one turn of the loop up to the test of i % 20
handle_api_calls_start ==
    /\ main_pc = "loop"
    /\ i <= pages_amount
    /\ thr' = Append(thr, [page_id |-> i, pc |-> "fetch", idx |-> 0])
    /\ threads' = Append(threads, Len(thr) + 1)
    /\ IF BatchFull(i)
       THEN /\ main_pc' = "join"
            /\ j' = 1
            /\ i' = i
       ELSE /\ main_pc' = "loop"
            /\ j' = j
            /\ i' = i + 1
    /\ UNCHANGED <<env_vars, pages_amount, recipes, warned, files, buff_i, buffs, buff_files,
                   pure_vars>>

\* line 195: range(1, pages_amount + 1) is exhausted
handle_api_calls_end ==
    /\ main_pc = "loop"
    /\ i > pages_amount
    /\ main_pc' = AfterLoop(threads)
    /\ j' = 1
    /\ UNCHANGED <<env_vars, pages_amount, i, threads, data_vars, pure_vars>>

\* lines 200-202 and 203-205: one t.join(), which returns once the thread has
\* terminated; after a batch's last one threads = [] and the loop goes on,
\* after the last one of all handle_api_calls returns
handle_api_calls_join ==
    /\ main_pc \in {"join", "final_join"}
    /\ Terminated(threads[j])
    /\ IF j < Len(threads)
       THEN /\ j' = j + 1
            /\ UNCHANGED <<main_pc, i, threads>>
       ELSE IF main_pc = "join"
       THEN /\ j' = 1
            /\ threads' = <<>>
            /\ i' = i + 1
            /\ main_pc' = "loop"
       ELSE /\ j' = 1
            /\ main_pc' = "save"
            /\ UNCHANGED <<i, threads>>
    /\ UNCHANGED <<env_vars, pages_amount, data_vars, pure_vars>>

\* lines 214-224, with each category's list as sorted on line 216
save_data_to_json ==
    /\ main_pc = "save"
    /\ files' = [class_job \in DOMAIN files \cup DOMAIN recipes |->
                    IF class_job \in DOMAIN recipes
                    THEN sorted(recipes[class_job], recipe_keys(recipes[class_job]))
                    ELSE files[class_job]]
    /\ main_pc' = "extract"
    /\ UNCHANGED <<env_vars, pages_amount, i, threads, j, thr, recipes, warned, buff_i,
                   buffs, buff_files, pure_vars>>

---------------------------------------------------------------------------
(* The buff pipeline of __main__ *)

EmptyDict == <<>>

\* lines 262-283: new_item, a None for every field the item does not give
new_item(item, hq) ==
    [ id |-> Get(item, "ID", None),
      cp_percent |-> Get(Get(Get(item, "Bonuses", EmptyDict), "CP", EmptyDict),
                         "Value", None),
      cp_value |-> Get(Get(Get(item, "Bonuses", EmptyDict), "CP", EmptyDict),
                       "Max", None),
      craft_percent |->
          Get(Get(Get(item, "Bonuses", EmptyDict), "Craftsmanship", EmptyDict),
              "Value", None),
      craft_value |->
          Get(Get(Get(item, "Bonuses", EmptyDict), "Craftsmanship", EmptyDict),
              "Max", None),
      control_percent |->
          Get(Get(Get(item, "Bonuses", EmptyDict), "Control", EmptyDict),
              "Value", None),
      control_value |->
          Get(Get(Get(item, "Bonuses", EmptyDict), "Control", EmptyDict),
              "Max", None),
      hq |-> Val(hq),
      name |-> [ en |-> Get(item, "Name_en", None),
                 de |-> Get(item, "Name_de", None),
                 fr |-> Get(item, "Name_fr", None),
                 ja |-> Get(item, "Name_ja", None) ] ]

\* a filter on truth instead of on None: hq False and a 0 go as well
KeepTruthy(d) ==
    [k \in {k \in DOMAIN d :
              /\ d[k] # None
              /\ ~(k = "hq" /\ d[k] = Val(FALSE))
              /\ ~(k \notin {"hq", "name"} /\ d[k] = Val(0))}
       |-> d[k]]

\* line 287: {k: v for k, v in new_item.items() if v is not None}
KeepNotNone(d) == [k \in {k \in DOMAIN d : d[k] # None} |-> d[k]]

\* lines 258-289: two dicts per item, hq False then hq True
buffs_of(items) ==
    [m \in 1..(2 * Len(items)) |->
        KeepNotNone(new_item(items[(m + 1) \div 2], <<FALSE, TRUE>>[2 - (m % 2)]))]

\* line 312: extract_buff_data(buff_name), lines 255-289; raise_for_status
\* and request.json() raise on a request that failed
extract_buff_data ==
    /\ main_pc = "extract"
    /\ LET request == search_resp[buff_types[buff_i]]
       IN  IF \/ request = TransportError
              \/ request.status_code >= 400
              \/ request.body = NotJSON
              \/ "Results" \notin DOMAIN request.body
           THEN /\ main_pc' = "aborted"
                /\ buffs' = buffs
           ELSE /\ main_pc' = "sort_save"
                /\ buffs' = buffs_of(request.body["Results"])
    /\ UNCHANGED <<env_vars, pages_amount, i, threads, j, thr, recipes, warned, files,
                   buff_i, buff_files, pure_vars>>

\* lines 313-314: buffs = sorted(buffs, ..), then save_buffs_to_file (299-303)
save_buffs_to_file ==
    /\ main_pc = "sort_save"
    /\ LET buff_name == buff_types[buff_i]
           sorted_buffs == sorted(buffs, buff_keys(buffs))
       IN  /\ buffs' = sorted_buffs
           /\ buff_files' = [f \in DOMAIN buff_files \cup {buff_name} |->
                               IF f = buff_name THEN sorted_buffs ELSE buff_files[f]]
    /\ buff_i' = buff_i + 1
    /\ main_pc' = IF buff_i < Len(buff_types) THEN "extract" ELSE "done"
    /\ UNCHANGED <<env_vars, pages_amount, i, threads, j, thr, recipes, warned, files,
                   pure_vars>>

---------------------------------------------------------------------------
(* The environment of the buff search, and the initial states *)

Bonus(value, max) == [Relative |-> Val(TRUE), Value |-> Val(value), Max |-> Val(max)]

BonusVariants ==
    { [CP |-> Bonus(6, 21)],
      [Craftsmanship |-> Bonus(5, 46), Control |-> Bonus(3, 28)],
      [CP |-> Bonus(26, 78), Craftsmanship |-> Bonus(4, 0), Control |-> Bonus(5, 61)] }

BuffIds == {1, 2}

BuffItem(id) ==
    [ ID |-> Val(id), Name |-> Val("Tea"), Name_en |-> Val("Tea"),
      Name_de |-> Val("Tee"), Name_fr |-> Val("The"), Name_ja |-> Val("Cha") ]

BuffItems ==
    {BuffItem(id) : id \in BuffIds}
    \cup {BuffItem(id) @@ ("Bonuses" :> b) : id \in BuffIds, b \in BonusVariants}

MaxItems == 2

SeqsUpTo(S, n) == UNION {[1..m -> S] : m \in 0..n}

SearchResponses ==
    {TransportError, Http(500, ErrorJSON)}
    \cup {Http(200, PageJSON(items)) : items \in SeqsUpTo(BuffItems, MaxItems)}

\* the answer the recipe runs end with
FewItems ==
    << BuffItem(2) @@ ("Bonuses" :> [CP |-> Bonus(6, 21)]), BuffItem(1) >>

Pagination(n) == Http(200, [Pagination |-> [PageTotal |-> n]])

InitMain ==
    /\ pages_amount = 0
    /\ i = 1
    /\ threads = <<>>
    /\ j = 1
    /\ thr = <<>>
    /\ recipes = <<>>
    /\ warned = {}
    /\ files = <<>>
    /\ buff_i = 1
    /\ buffs = <<>>
    /\ buff_files = <<>>

InitPure ==
    /\ raw_in = None
    /\ recipe_out = None

\* a run against a small source: every page count up to MaxPages, every
\* answer of every page, the answers in any order
Init ==
    /\ \/ pagination \in {TransportError, Http(200, NotJSON)} /\ resp = <<>>
       \/ \E n \in 0..MaxPages :
             /\ pagination = Pagination(n)
             /\ resp \in [1..n -> PageResponses]
    /\ search_resp = [n \in {"Medicine", "Meal"} |-> Http(200, PageJSON(FewItems))]
    /\ overtake = MaxPages
    /\ main_pc = "get_total_pages"
    /\ InitMain
    /\ InitPure

Next ==
    \/ get_total_pages
    \/ handle_api_calls_start
    \/ handle_api_calls_join
    \/ handle_api_calls_end
    \/ \E t \in 1..Len(thr) : api_call(t)
    \/ save_data_to_json
    \/ extract_buff_data
    \/ save_buffs_to_file

Spec == Init /\ [][Next]_vars

\* a run over more pages than a batch holds: the pages answer an empty
\* result list, but for the last one, and an answer overtakes at most
\* MaxOvertake older requests
MaxBatchPages == 41

MaxOvertake == 1

BatchPageCounts == {0, 1, BatchSize, BatchSize + 1, MaxBatchPages}

InitBatch ==
    /\ \E n \in BatchPageCounts :
          /\ pagination = Pagination(n)
          /\ resp = [p \in {n} \ {0} |-> Http(200, PageJSON(ResultsA))]
    /\ search_resp = [n \in {"Medicine", "Meal"} |-> Http(200, PageJSON(FewItems))]
    /\ overtake \in 0..MaxOvertake
    /\ main_pc = "get_total_pages"
    /\ InitMain
    /\ InitPure

SpecBatch == InitBatch /\ [][Next]_vars

\* a run whose source has one page, against every answer of the buff search
InitBuff ==
    /\ pagination = Pagination(1)
    /\ resp = <<Http(200, PageJSON(ResultsA))>>
    /\ \E r \in SearchResponses, q \in {Http(500, ErrorJSON), Http(200, PageJSON(FewItems))} :
          \/ search_resp = ("Medicine" :> r) @@ ("Meal" :> q)
          \/ search_resp = ("Medicine" :> q) @@ ("Meal" :> r)
    /\ overtake = 0
    /\ main_pc = "get_total_pages"
    /\ InitMain
    /\ InitPure

SpecBuff == InitBuff /\ [][Next]_vars

---------------------------------------------------------------------------
(* construct_recipe_json on its own: every base and factor up to a bound *)

MaxBase == 100

MaxFactor == 101

\* the level-table field, the factor and the output field of the three stats
Stats ==
    << <<"Difficulty", "DifficultyFactor", "difficulty">>,
       <<"Durability", "DurabilityFactor", "durability">>,
       <<"Quality", "QualityFactor", "maxQuality">> >>

RecipeInput(stat, base, factor, stars) ==
    [ RawRecipe(7, "Weaver", "Robe",
                [LevelTable(stars) EXCEPT ![Stats[stat][1]] = base])
        EXCEPT ![Stats[stat][2]] = factor ]

RecipeInputs ==
    {RawRecipe(7, "Weaver", "Robe", None)}
    \cup {RecipeInput(stat, base, factor, stars) :
            stat \in 1..3, base \in 0..MaxBase, factor \in 0..MaxFactor, stars \in {0, 3}}

InitRecipe ==
    /\ raw_in \in RecipeInputs
    /\ recipe_out = None
    /\ main_pc = "transform"
    /\ pagination = TransportError
    /\ resp = <<>>
    /\ search_resp = <<>>
    /\ overtake = 0
    /\ InitMain

transform ==
    /\ main_pc = "transform"
    /\ recipe_out' = construct_recipe_json(raw_in)
    /\ main_pc' = "transformed"
    /\ UNCHANGED <<env_vars, pages_amount, i, threads, j, data_vars, raw_in>>

NextRecipe == transform

SpecRecipe == InitRecipe /\ [][NextRecipe]_vars

---------------------------------------------------------------------------
(* What the properties speak of *)

\* handle_api_calls has returned
Returned == main_pc \in {"save", "extract", "sort_save", "done"}

\* save_data_to_json has run
Persisted == main_pc \in {"extract", "sort_save", "done"}

HasResults(page_id) ==
    /\ Response(page_id).kind = "http"
    /\ "Results" \in DOMAIN Response(page_id).body

PageResults(page_id) ==
    IF HasResults(page_id) THEN Response(page_id).body["Results"] ELSE <<>>

RateLimited(page_id) ==
    /\ Response(page_id).kind = "http"
    /\ Response(page_id).status_code = 429

HasLevelTable(recipe) == recipe["RecipeLevelTable"] # None

\* the records with a level table on the pages given, as <<page, position>>
ValidRecords(pages) ==
    UNION {{<<p, m>> : m \in {m \in 1..Len(PageResults(p)) :
                                HasLevelTable(PageResults(p)[m])}} : p \in pages}

RecordAt(pos) == PageResults(pos[1])[pos[2]]

KeyOf(pos) == RecordAt(pos)["ClassJob"]["NameEnglish"]

Count(list, v) == Cardinality({n \in 1..Len(list) : list[n] = v})

Range(list) == {list[n] : n \in 1..Len(list)}

SameBag(xs, ys) ==
    /\ Len(xs) = Len(ys)
    /\ \A v \in Range(xs) \cup Range(ys) : Count(xs, v) = Count(ys, v)

\* the mapping holds, per category, exactly the normalized records of the
\* pages given: as many copies of each as there are records giving it
Accumulated(pages) ==
    /\ DOMAIN recipes = {KeyOf(pos) : pos \in ValidRecords(pages)}
    /\ \A key \in DOMAIN recipes :
          LET from == {pos \in ValidRecords(pages) : KeyOf(pos) = key}
          IN  /\ Len(recipes[key]) = Cardinality(from)
              /\ \A v \in Range(recipes[key]) \cup {recipe_dict(RecordAt(pos)) : pos \in from} :
                    Count(recipes[key], v)
                      = Cardinality({pos \in from : recipe_dict(RecordAt(pos)) = v})

Batch(page_id) == (page_id - 1) \div BatchSize

Ids(list) == [n \in 1..Len(list) |-> list[n]["id"]]

DistinctIds(list) == \A m, n \in 1..Len(list) : m # n => list[m]["id"] # list[n]["id"]

---------------------------------------------------------------------------
(* The properties *)

\* C1: page tasks are launched in consecutive batches of at most 20 (pages
\* 20k+1 .. 20k+20): a task is started only when every task of every earlier
\* batch has terminated, so never more than 20 tasks are in flight.
C1_BatchesOfTwenty ==
    /\ Cardinality(InFlight) <= 20
    /\ \A t, u \in 1..Len(thr) :
          Batch(thr[u].page_id) < Batch(thr[t].page_id) => Terminated(u)
    /\ \A n \in 1..Len(threads) :
          /\ Batch(thr[threads[n]].page_id) = Batch(thr[threads[1]].page_id)
          /\ thr[threads[n]].page_id = thr[threads[1]].page_id + n - 1
          /\ thr[threads[1]].page_id % 20 = 1

\* a second batch of twenty all in flight, the first one over
C1_Witness ==
    /\ Len(thr) = 40
    /\ Cardinality(InFlight) = 20
    /\ \A t \in InFlight : thr[t].page_id > 20

\* C2: concurrent appends lose no update: once handle_api_calls has returned
\* and no task has failed, each category's list holds exactly the multiset of
\* the normalized records of the level-table-bearing records of pages 1..N
\* with that class-job name.
C2_NoLostUpdate ==
    (Returned /\ \A t \in 1..Len(thr) : thr[t].pc = "done")
        => Accumulated(1..pages_amount)

\* three pages appended to one category, their appends interleaved: the first
\* page's record is not the first of the list
C2_Witness ==
    /\ Returned
    /\ pages_amount = 3
    /\ \A t \in 1..Len(thr) : thr[t].pc = "done"
    /\ "Carpenter" \in DOMAIN recipes
    /\ Len(recipes["Carpenter"]) = 3
    /\ resp[1] = Http(200, PageJSON(ResultsA))
    /\ recipes["Carpenter"][3]["id"] = 2

\* C3: a page answered with status 429 contributes nothing, whatever its
\* body, and the run goes on: when the tasks of the other pages have ended
\* well, the mapping holds exactly the valid records of the pages not
\* rate-limited.
C3_RateLimitedPageIsEmpty ==
    (/\ Returned
     /\ \A t \in 1..Len(thr) : RateLimited(thr[t].page_id) \/ thr[t].pc = "done")
        => Accumulated({p \in 1..pages_amount : ~RateLimited(p)})

\* C4: a transport or parse failure of a page fetch aborts the run: recipe
\* persistence and the buff pipeline are never reached after it.
C4_FetchFailureAborts ==
    (\E t \in 1..Len(thr) :
        /\ thr[t].pc = "failed"
        /\ \/ Response(thr[t].page_id) = TransportError
           \/ Response(thr[t].page_id).body = NotJSON)
        => /\ ~Persisted
           /\ files = <<>>
           /\ buff_files = <<>>

\* the records a thread has dealt with: those before its position, all once
\* it is done
Processed(t) ==
    CASE thr[t].pc \in {"loop", "append"} -> thr[t].idx - 1
      [] thr[t].pc = "done" -> Len(PageResults(thr[t].page_id))
      [] OTHER -> 0

\* C5: construct_recipe_json yields nothing exactly for the records without a
\* level table; api_call skips such a record without an error and without
\* appending anything, None included, and goes on with the page's other
\* records: the lists hold one entry per level-table-bearing record dealt
\* with, and a thread that is done has dealt with all of its page.
C5_NullLevelTableSkipped ==
    /\ \A t \in 1..Len(thr) : \A m \in 1..Len(PageResults(thr[t].page_id)) :
          LET recipe == PageResults(thr[t].page_id)[m]
          IN  (construct_recipe_json(recipe) = None) <=> ~HasLevelTable(recipe)
    /\ \A key \in DOMAIN recipes : \A n \in 1..Len(recipes[key]) :
          recipes[key][n] # None
    /\ \A t \in 1..Len(thr) :
          thr[t].pc = "failed" => ~HasResults(thr[t].page_id)
    /\ Cardinality(UNION {{<<key, n>> : n \in 1..Len(recipes[key])} : key \in DOMAIN recipes})
         = Cardinality(UNION {{<<t, m>> : m \in {m \in 1..Processed(t) :
                                   HasLevelTable(PageResults(thr[t].page_id)[m])}}
                                : t \in 1..Len(thr)})

\* a thread is done with the page whose first record has no level table, and
\* the record after it is in the mapping
C5_Witness ==
    /\ pages_amount = 1
    /\ resp[1] = Http(200, PageJSON(ResultsB))
    /\ Len(thr) = 1
    /\ thr[1].pc = "done"
    /\ "Carpenter" \in DOMAIN recipes
    /\ Len(recipes["Carpenter"]) = 1
    /\ recipes["Carpenter"][1]["id"] = 1

BonusKeys ==
    { <<"CP", "cp_percent", "cp_value">>,
      <<"Craftsmanship", "craft_percent", "craft_value">>,
      <<"Control", "control_percent", "control_value">> }

HasBonus(item, bonus) ==
    /\ "Bonuses" \in DOMAIN item
    /\ bonus \in DOMAIN item["Bonuses"]

\* the items the search for the buff name at hand returned
FoundItems == search_resp[buff_types[buff_i]].body["Results"]

\* C7: extract_buff_data emits two records per item, hq false then hq true,
\* alike in every other key and value; a bonus the item lacks leaves its
\* _percent and _value keys out of both, with no None anywhere, and a bonus
\* it has is kept.
C7_TwoVariantsPerItem ==
    main_pc = "sort_save" =>
        /\ Len(buffs) = 2 * Len(FoundItems)
        /\ \A n \in 1..Len(FoundItems) :
              LET item == FoundItems[n]
                  nq == buffs[2 * n - 1]
                  hq == buffs[2 * n]
              IN  /\ "hq" \in DOMAIN nq /\ nq["hq"] = Val(FALSE)
                  /\ "hq" \in DOMAIN hq /\ hq["hq"] = Val(TRUE)
                  /\ DOMAIN nq = DOMAIN hq
                  /\ \A k \in DOMAIN nq \ {"hq"} : nq[k] = hq[k]
                  /\ \A k \in DOMAIN nq : nq[k] # None
                  /\ "id" \in DOMAIN nq /\ nq["id"] = item["ID"]
                  /\ \A b \in BonusKeys :
                        IF HasBonus(item, b[1])
                        THEN /\ {b[2], b[3]} \subseteq DOMAIN nq
                             /\ nq[b[2]] = item["Bonuses"][b[1]]["Value"]
                             /\ nq[b[3]] = item["Bonuses"][b[1]]["Max"]
                        ELSE {b[2], b[3]} \cap DOMAIN nq = {}

\* two items, the second without a Control bonus: four records, two of them
\* without the control keys
C7_Witness ==
    /\ main_pc = "sort_save"
    /\ Len(buffs) = 4
    /\ HasBonus(FoundItems[1], "Control")
    /\ HasBonus(FoundItems[2], "CP")
    /\ ~HasBonus(FoundItems[2], "Control")
    /\ "control_percent" \in DOMAIN buffs[1]
    /\ "control_percent" \notin DOMAIN buffs[3]

\* C8 as stated: every file's entries are its category's records strictly
\* ascending by id, each id greater than the one before.
C8_StrictlyAscending ==
    Persisted =>
        /\ DOMAIN files = DOMAIN recipes
        /\ \A key \in DOMAIN files :
              /\ SameBag(files[key], recipes[key])
              /\ \A n \in 1..(Len(files[key]) - 1) :
                    files[key][n]["id"] < files[key][n + 1]["id"]

\* C8, amended: every file's entries are its category's records ascending by
\* id, each id at least the one before, and greater when the category's
\* records have distinct ids; for every order of the appends.
C8_Ascending ==
    Persisted =>
        /\ DOMAIN files = DOMAIN recipes
        /\ \A key \in DOMAIN files :
              /\ SameBag(files[key], recipes[key])
              /\ \A n \in 1..(Len(files[key]) - 1) :
                    /\ files[key][n]["id"] <= files[key][n + 1]["id"]
                    /\ DistinctIds(recipes[key])
                         => files[key][n]["id"] < files[key][n + 1]["id"]

\* a category whose records were appended out of order, the ids distinct
C8_Witness ==
    /\ Persisted
    /\ "Carpenter" \in DOMAIN files
    /\ Ids(recipes["Carpenter"]) = <<2, 1>>
    /\ Ids(files["Carpenter"]) = <<1, 2>>

\* C9: the list written to a buff type's file is the extracted list sorted
\* ascending by (id, hq), hq false before hq true for one id, whatever the
\* order of the extracted list.
C9_BuffFileSorted ==
    \A name \in DOMAIN buff_files :
        LET written == buff_files[name]
        IN  /\ SameBag(written, buffs_of(search_resp[name].body["Results"]))
            /\ \A n \in 1..(Len(written) - 1) :
                  \/ written[n]["id"].val < written[n + 1]["id"].val
                  \/ /\ written[n]["id"].val = written[n + 1]["id"].val
                     /\ written[n]["hq"].val = TRUE => written[n + 1]["hq"].val = TRUE

\* items found in the order 2, 1: the file holds 1, 1, 2, 2
C9_Witness ==
    /\ "Medicine" \in DOMAIN buff_files
    /\ Len(search_resp["Medicine"].body["Results"]) = 2
    /\ search_resp["Medicine"].body["Results"][1]["ID"] = Val(2)
    /\ search_resp["Medicine"].body["Results"][2]["ID"] = Val(1)
    /\ [n \in 1..4 |-> buff_files["Medicine"][n]["id"].val] = <<1, 1, 2, 2>>
    /\ [n \in 1..4 |-> buff_files["Medicine"][n]["hq"].val] = <<FALSE, TRUE, FALSE, TRUE>>

\* C10: handle_api_calls starts one task for each page 1..N, none twice, and
\* returns only when every one of them has terminated, those of a last
\* partial batch included: persistence never begins with a task running or
\* not yet started.
C10_AllStartedAllJoined ==
    /\ \A t, u \in 1..Len(thr) : t # u => thr[t].page_id # thr[u].page_id
    /\ \A t \in 1..Len(thr) : thr[t].page_id \in 1..pages_amount
    /\ Returned =>
          /\ \A p \in 1..pages_amount : \E t \in 1..Len(thr) : thr[t].page_id = p
          /\ \A t \in 1..Len(thr) : Terminated(t)

\* the return after a last batch of one page
C10_Witness ==
    /\ main_pc = "save"
    /\ pages_amount = 41
    /\ Len(thr) = 41
    /\ Len(threads) = 1

====
